---- MODULE Spec2Model ----
(***************************************************************************)
(* A model of scripts/release.py: the two changelog text routines          *)
(* (extract_changelog_from_text, get_changelog_entry) and the release      *)
(* pipeline of main().                                                     *)
(*                                                                         *)
(* Texts are sequences of one-character strings.  Indices that come from   *)
(* re.Match objects are kept 0-based as in Python, and slices go through   *)
(* Slice/SliceFrom/SliceTo, so that the index arithmetic of the source     *)
(* reads the same here.                                                    *)
(***************************************************************************)
EXTENDS Integers, Sequences, FiniteSets, TLC

VARIABLES
    \* ---- the text routines applied to drawn inputs
    routine,        \* "extract" or "lookup": the routine under application
    text,           \* output_text (extract) / changelog_content (lookup)
    wanted,         \* the version argument of get_changelog_entry
    calls,          \* how many times the routine has been applied
    outcome,        \* "pending" | "returned" | "ValueError"
    result,         \* the value returned by the last application
    previous,       \* the value returned by the application before it
    \* ---- main(): the release pipeline
    pc,             \* where main() stands: "idle" before a run, then the step
                    \* about to execute, "done" (returned) or "raised"
    runs,           \* how many runs have been started
    args,           \* the parsed command line (lines 179-185)
    changelog_entry,\* the local variable of main()
    changelog_file, \* CHANGELOG.md on disk: [exists, content]
    package_json,   \* package.json on disk: [state, version]
    commits,        \* the local branch: the versions of the release commits
    tags,           \* the local tags: [name, message]
    remote_commits, \* the branch on origin
    remote_tags,    \* the tag names on origin
    releases,       \* the GitHub releases, by tag name
    steps,          \* the steps this run has attempted: [name, ok]
    at_start        \* files, repository and remote as this run found them

textVars == <<routine, text, wanted, calls, outcome, result, previous>>

runVars ==
    <<pc, runs, args, changelog_entry, changelog_file, package_json, commits,
      tags, remote_commits, remote_tags, releases, steps, at_start>>

vars == <<textVars, runVars>>

----------------------------------------------------------------------------
(* Characters and character classes *)

\* str.isspace() / regex \s, restricted to the characters the inputs use
Whitespace == {" ", "\n", "\r", "\t"}

\* regex \d
Digit == {"0", "1", "2", "3", "4", "5", "6", "7", "8", "9"}

\* the line boundaries str.splitlines() knows, restricted likewise
LineBreak == {"\n", "\r"}

\* the backquote character (a string literal cannot hold one)
Backquote == "bq"

\* the fence marker, three backquotes
Fence == <<Backquote, Backquote, Backquote>>
NL == <<"\n">>

----------------------------------------------------------------------------
(* Python slicing, 0-based, end-exclusive, clamped *)

Min(a, b) == IF a < b THEN a ELSE b
Max(a, b) == IF a > b THEN a ELSE b

\* s[a:b]
Slice(s, a, b) == SubSeq(s, Max(a, 0) + 1, Min(b, Len(s)))
\* s[a:]
SliceFrom(s, a) == SubSeq(s, Max(a, 0) + 1, Len(s))
\* s[:b]
SliceTo(s, b) == SubSeq(s, 1, Min(b, Len(s)))

\* does the literal lit occur in s at 0-based offset i
LitAt(s, i, lit) ==
    /\ i >= 0
    /\ i + Len(lit) <= Len(s)
    /\ \A k \in 1..Len(lit) : s[i + k] = lit[k]

\* 0-based offset of the first character at or after i that is not in class
RECURSIVE SkipClass(_, _, _)
SkipClass(s, i, class) ==
    IF i < Len(s) /\ s[i + 1] \in class THEN SkipClass(s, i + 1, class) ELSE i

----------------------------------------------------------------------------
(* str methods *)

\* str.lstrip()
lstrip(s) == SliceFrom(s, SkipClass(s, 0, Whitespace))

RECURSIVE LastNonSpace(_, _)
LastNonSpace(s, n) ==
    IF n > 0 /\ s[n] \in Whitespace THEN LastNonSpace(s, n - 1) ELSE n

\* str.rstrip()
rstrip(s) == SubSeq(s, 1, LastNonSpace(s, Len(s)))

\* str.strip()
strip(s) == lstrip(rstrip(s))

\* str.splitlines(): "\n", "\r" and "\r\n" end a line; the terminators are
\* dropped and a terminator at the very end opens no further line
RECURSIVE SplitFrom(_, _, _, _)
SplitFrom(s, i, cur, acc) ==
    IF i >= Len(s) THEN (IF cur = <<>> THEN acc ELSE Append(acc, cur))
    ELSE IF s[i + 1] = "\r" /\ i + 1 < Len(s) /\ s[i + 2] = "\n"
         THEN SplitFrom(s, i + 2, <<>>, Append(acc, cur))
    ELSE IF s[i + 1] \in LineBreak
         THEN SplitFrom(s, i + 1, <<>>, Append(acc, cur))
    ELSE SplitFrom(s, i + 1, Append(cur, s[i + 1]), acc)

splitlines(s) == SplitFrom(s, 0, <<>>, <<>>)

\* sep.join(parts)
RECURSIVE JoinFrom(_, _, _)
JoinFrom(sep, parts, k) ==
    IF k > Len(parts) THEN <<>>
    ELSE IF k = Len(parts) THEN parts[k]
    ELSE parts[k] \o sep \o JoinFrom(sep, parts, k + 1)

join(sep, parts) == JoinFrom(sep, parts, 1)

\* s.replace(old, ""): occurrences of old are removed left to right, without
\* rescanning what the removal brings together
RECURSIVE RemoveFrom(_, _, _)
RemoveFrom(s, old, i) ==
    IF i >= Len(s) THEN <<>>
    ELSE IF LitAt(s, i, old) THEN RemoveFrom(s, old, i + Len(old))
    ELSE <<s[i + 1]>> \o RemoveFrom(s, old, i + 1)

remove_all(s, old) == RemoveFrom(s, old, 0)

----------------------------------------------------------------------------
(* The regular expressions.  A match is [found, start, end], start and end  *)
(* being match.start() and match.end().                                     *)

NoMatch == [found |-> FALSE, start |-> 0, end |-> 0]
MatchOf(a, b) == [found |-> TRUE, start |-> a, end |-> b]

\* \d+ at offset i: the offset after the digits, or -1.  The quantifier is
\* greedy, and giving digits back never helps what follows (a "\." or the
\* end of the pattern), so the longest run is the match.
DigitsAt(s, i) ==
    LET j == SkipClass(s, i, Digit) IN IF j > i THEN j ELSE -1

\* v\d+\.\d+\.\d+ at offset i: the offset after it, or -1
VersionNumberAt(s, i) ==
    IF ~LitAt(s, i, <<"v">>) THEN -1
    ELSE LET a == DigitsAt(s, i + 1) IN
         IF a < 0 \/ ~LitAt(s, a, <<".">>) THEN -1
         ELSE LET b == DigitsAt(s, a + 1) IN
              IF b < 0 \/ ~LitAt(s, b, <<".">>) THEN -1
              ELSE DigitsAt(s, b + 1)

\* r"## v\d+\.\d+\.\d+" at offset i: the offset after it, or -1
HeadingAt(s, i) ==
    IF LitAt(s, i, <<"#", "#", " ">>) THEN VersionNumberAt(s, i + 3) ELSE -1

\* re.search(r"## v\d+\.\d+\.\d+", s): the leftmost match
RECURSIVE SearchHeadingFrom(_, _)
SearchHeadingFrom(s, i) ==
    IF i >= Len(s) THEN NoMatch
    ELSE IF HeadingAt(s, i) >= 0 THEN MatchOf(i, HeadingAt(s, i))
    ELSE SearchHeadingFrom(s, i + 1)

search_heading(s) == SearchHeadingFrom(s, 0)

----------------------------------------------------------------------------
(* extract_changelog_from_text *)

\* lines 97-100: every line of the span with its leading whitespace stripped,
\* joined with "\n"
format_lines(changelog_content) ==
    LET lines == splitlines(changelog_content)
        formatted_lines == [k \in 1..Len(lines) |-> lstrip(lines[k])]
    IN  join(NL, formatted_lines)

\* lines 97-101: the normalisation of the span
normalize(changelog_content) ==
    strip(remove_all(format_lines(changelog_content), Fence))

\* first_span with the offset of the second search left out of end_index
first_span_unshifted(output_text, match) ==
    LET start_index == match.start
        content_from_start == SliceFrom(output_text, start_index)
        content_after_first ==
            SliceFrom(content_from_start, match.end - start_index)
        next_match == search_heading(content_after_first)
        end_index == next_match.start
    IN  IF next_match.found
        THEN SliceTo(content_from_start, end_index)
        ELSE content_from_start

\* first_span with the text before the first heading kept
first_span_with_preamble(output_text, match) ==
    LET content_after_first == SliceFrom(output_text, match.end)
        next_match == search_heading(content_after_first)
        end_index == next_match.start + match.end
    IN  IF next_match.found
        THEN SliceTo(output_text, end_index)
        ELSE output_text

\* lines 87-95: the span of the first entry, given the first match
first_span(output_text, match) ==
    LET start_index == match.start
        content_from_start == SliceFrom(output_text, start_index)
        content_after_first ==
            SliceFrom(content_from_start, match.end - start_index)
        next_match == search_heading(content_after_first)
        end_index == next_match.start + (match.end - start_index)
    IN  IF next_match.found
        THEN SliceTo(content_from_start, end_index)
        ELSE content_from_start

extract_changelog_from_text(output_text) ==
    LET match == search_heading(output_text)
    IN  IF ~match.found THEN <<>>
        ELSE normalize(first_span(output_text, match))

----------------------------------------------------------------------------
(* get_changelog_entry: the pattern                                         *)
(*     ##\s*<version>\s*(.*?)\s*(##\s*v\d+\.\d+\.\d+|$)     with re.DOTALL   *)
(* matched the way the backtracking engine does, left to right.             *)

\* ##\s*<version> at offset i: the offset after the version, or -1.  The
\* greedy \s* takes all the whitespace and gives it back one by one.
RECURSIVE VersionAfterSpaces(_, _, _, _)
VersionAfterSpaces(s, lo, w, version) ==
    IF LitAt(s, w, version) THEN w + Len(version)
    ELSE IF w > lo THEN VersionAfterSpaces(s, lo, w - 1, version)
    ELSE -1

EntryHeadAt(s, i, version) ==
    IF LitAt(s, i, <<"#", "#">>)
    THEN VersionAfterSpaces(s, i + 2, SkipClass(s, i + 2, Whitespace), version)
    ELSE -1

\* $ without re.MULTILINE: the end of the text, or just before a final "\n"
EndAt(s, i) == i = Len(s) \/ (i = Len(s) - 1 /\ s[Len(s)] = "\n")

\* ##\s*v\d+\.\d+\.\d+ at offset i: the offset after it, or -1
NextHeadingAt(s, i) ==
    IF LitAt(s, i, <<"#", "#">>)
    THEN VersionNumberAt(s, SkipClass(s, i + 2, Whitespace))
    ELSE -1

\* (##\s*v\d+\.\d+\.\d+|$) at offset i, the heading alternative first
TerminatorAt(s, i) ==
    IF NextHeadingAt(s, i) >= 0 THEN NextHeadingAt(s, i)
    ELSE IF EndAt(s, i) THEN i
    ELSE -1

\* \s*(...|$) at offset q: greedy whitespace up to w, given back one by one
RECURSIVE SpacesThenTerminator(_, _, _)
SpacesThenTerminator(s, q, w) ==
    IF TerminatorAt(s, w) >= 0 THEN TerminatorAt(s, w)
    ELSE IF w > q THEN SpacesThenTerminator(s, q, w - 1)
    ELSE -1

\* (.*?)\s*(...|$) at offset q: the lazy body grows one character at a time
\* (any character, re.DOTALL) until the rest of the pattern matches
RECURSIVE LazyBody(_, _)
LazyBody(s, q) ==
    LET e == SpacesThenTerminator(s, q, SkipClass(s, q, Whitespace))
    IN  IF e >= 0 THEN e
        ELSE IF q < Len(s) THEN LazyBody(s, q + 1)
        ELSE -1

\* the whole pattern at offset i: the offset after the match, or -1.  After
\* the version the greedy \s* keeps all the whitespace: the body can always
\* run to the end of the text, so nothing is ever given back.
EntryAt(s, i, version) ==
    LET h == EntryHeadAt(s, i, version)
    IN  IF h < 0 THEN -1 ELSE LazyBody(s, SkipClass(s, h, Whitespace))

\* re.search(pattern, changelog_content, re.DOTALL): the leftmost match
RECURSIVE SearchEntryFrom(_, _, _)
SearchEntryFrom(s, i, version) ==
    IF i >= Len(s) THEN NoMatch
    ELSE IF EntryAt(s, i, version) >= 0
         THEN MatchOf(i, EntryAt(s, i, version))
    ELSE SearchEntryFrom(s, i + 1, version)

search_entry(version, changelog_content) ==
    SearchEntryFrom(changelog_content, 0, version)

\* lines 107-115 on the text read at lines 105-106: [raised, entry]
get_changelog_entry(version, changelog_content) ==
    LET match == search_entry(version, changelog_content)
    IN  IF match.found
        THEN [raised |-> FALSE,
              entry |-> strip(Slice(changelog_content, match.start, match.end))]
        ELSE [raised |-> TRUE, entry |-> <<>>]

----------------------------------------------------------------------------
(* The inputs the text routines are applied to: concatenations of a few     *)
(* pieces (headings, line breaks, blanks, fence markers, words).            *)

MaxTextTokens == 5
MaxDocTokens == 4

Heading123 == <<"#", "#", " ", "v", "1", ".", "2", ".", "3">>
Heading100 == <<"#", "#", " ", "v", "1", ".", "0", ".", "0">>
Label123 == <<"v", "1", ".", "2", ".", "3">>
Label100 == <<"v", "1", ".", "0", ".", "0">>

\* pieces of assistant output
TextTokens == {Heading123, Heading100, NL, <<" ">>, Fence, <<"a">>, <<"#">>}

\* pieces of a changelog document
DocTokens ==
    {Heading123, Heading100, <<"#", "#">>, Label123, NL, <<" ">>, <<"a">>,
     <<"0">>}

\* the version labels asked for
Versions == {Label123, Label100}

RECURSIVE Flatten(_)
Flatten(pieces) ==
    IF pieces = <<>> THEN <<>> ELSE Head(pieces) \o Flatten(Tail(pieces))

TokenTexts(tokens, n) ==
    {Flatten(p) : p \in UNION {[1..k -> tokens] : k \in 0..n}}

NoText == <<>>

----------------------------------------------------------------------------
(* Files.  Both files are opened in text mode: reading translates "\r\n"    *)
(* and "\r" to "\n" (universal newlines), writing writes "\n" as the        *)
(* platform's line separator, modelled as POSIX's.                          *)

os_linesep == <<"\n">>

\* what open(path, "r") hands to the program for the stored characters
RECURSIVE ReadFrom(_, _)
ReadFrom(stored, i) ==
    IF i >= Len(stored) THEN <<>>
    ELSE IF stored[i + 1] = "\r" /\ i + 1 < Len(stored) /\ stored[i + 2] = "\n"
         THEN NL \o ReadFrom(stored, i + 2)
    ELSE IF stored[i + 1] = "\r" THEN NL \o ReadFrom(stored, i + 1)
    ELSE <<stored[i + 1]>> \o ReadFrom(stored, i + 1)

read_text(stored) == ReadFrom(stored, 0)

\* what open(path, "w") stores for the characters written
RECURSIVE WriteFrom(_, _)
WriteFrom(written, i) ==
    IF i >= Len(written) THEN <<>>
    ELSE IF written[i + 1] = "\n" THEN os_linesep \o WriteFrom(written, i + 1)
    ELSE <<written[i + 1]>> \o WriteFrom(written, i + 1)

write_text(written) == WriteFrom(written, 0)

\* f.readlines(): the lines with their "\n" kept
RECURSIVE LinesFrom(_, _, _, _)
LinesFrom(s, i, cur, acc) ==
    IF i >= Len(s) THEN (IF cur = <<>> THEN acc ELSE Append(acc, cur))
    ELSE IF s[i + 1] = "\n"
         THEN LinesFrom(s, i + 1, <<>>, Append(acc, Append(cur, "\n")))
    ELSE LinesFrom(s, i + 1, Append(cur, s[i + 1]), acc)

readlines(s) == LinesFrom(s, 0, <<>>, <<>>)

\* lines 59-65 when no I/O error occurs: the stored characters afterwards
insert_at_front(stored, new_content) ==
    LET lines == readlines(read_text(stored))
        inserted == <<new_content>> \o lines
    IN  write_text(Flatten(inserted))

\* version.lstrip("v")
lstrip_v(version) == SliceFrom(version, SkipClass(version, 0, {"v"}))

----------------------------------------------------------------------------
(* main() *)

MaxRuns == 2

\* what the assistant may print on success: prose only, or a fenced entry
\* with a trailing older section
AssistantOutputs ==
    {<<"a">>,
     Fence \o NL \o Heading123 \o NL \o <<" ", "a">> \o NL \o Fence \o NL
        \o Heading100}

\* the changelog files a first run may find
InitialChangelogs ==
    {[exists |-> FALSE, content |-> <<>>],
     [exists |-> TRUE, content |-> Heading100 \o NL \o <<"a">> \o NL],
     [exists |-> TRUE, content |-> Heading100 \o <<"\r", "\n", "a">>]}

\* the package.json files a first run may find
InitialPackages ==
    {[state |-> "ok", version |-> <<"0", ".", "1", ".", "0">>],
     [state |-> "invalid", version |-> <<>>]}

NoArgs ==
    [version |-> Label123, dry_run |-> FALSE, no_tag |-> FALSE,
     no_push |-> FALSE, no_release |-> FALSE, skip_gen |-> FALSE]

Snapshot ==
    [changelog |-> changelog_file, package |-> package_json,
     commits |-> commits, tags |-> tags, remote_commits |-> remote_commits,
     remote_tags |-> remote_tags, releases |-> releases]

files == <<changelog_file, package_json>>
local_repo == <<commits, tags>>
remote == <<remote_commits, remote_tags, releases>>

StepDone(name) == Append(steps, [name |-> name, ok |-> TRUE])
StepFailed(name) == Append(steps, [name |-> name, ok |-> FALSE])

\* an exception leaves main()
Raise(name) ==
    /\ pc' = "raised"
    /\ steps' = StepFailed(name)

\* no run yet
RunIdle ==
    /\ pc = "idle"
    /\ runs = 0
    /\ args = NoArgs
    /\ changelog_entry = <<>>
    /\ commits = <<>>
    /\ tags = {}
    /\ remote_commits = <<>>
    /\ remote_tags = {}
    /\ releases = {}
    /\ steps = <<>>

\* lines 157-189: a run starts with its parsed arguments
Start ==
    /\ UNCHANGED textVars
    /\ pc \in {"idle", "done", "raised"}
    /\ runs < MaxRuns
    /\ runs' = runs + 1
    /\ \E version \in Versions :
       \E dry_run, no_tag, no_push, no_release, skip_gen \in BOOLEAN :
          args' = [version |-> version, dry_run |-> dry_run,
                   no_tag |-> no_tag, no_push |-> no_push,
                   no_release |-> no_release, skip_gen |-> skip_gen]
    /\ pc' = "entry"
    /\ changelog_entry' = <<>>
    /\ steps' = <<>>
    /\ at_start' = Snapshot
    /\ UNCHANGED <<files, local_repo, remote>>

\* lines 191-192 and 104-115: the entry is looked up in the changelog file
LookupEntry ==
    /\ UNCHANGED textVars
    /\ pc = "entry"
    /\ args.skip_gen
    /\ IF ~changelog_file.exists
       THEN \* open() raises FileNotFoundError
            /\ Raise("entry")
            /\ UNCHANGED changelog_entry
       ELSE LET r == get_changelog_entry(args.version,
                                         read_text(changelog_file.content))
            IN  IF r.raised
                THEN /\ Raise("entry")
                     /\ UNCHANGED changelog_entry
                ELSE /\ changelog_entry' = r.entry
                     /\ steps' = StepDone("entry")
                     /\ pc' = "dry_run"
    /\ UNCHANGED <<runs, args, files, local_repo, remote, at_start>>

\* GenerateEntry with the exit status of the assistant ignored
GenerateEntry_unchecked ==
    /\ UNCHANGED textVars
    /\ pc = "entry"
    /\ ~args.skip_gen
    /\ \E returncode \in {0, 1}, stdout \in AssistantOutputs :
          /\ changelog_entry' = extract_changelog_from_text(strip(stdout))
          /\ steps' = IF returncode # 0 THEN StepFailed("entry")
                      ELSE StepDone("entry")
          /\ pc' = "dry_run"
    /\ UNCHANGED <<runs, args, files, local_repo, remote, at_start>>

\* lines 193-194 and 148-154: the entry is generated by the assistant
GenerateEntry ==
    /\ UNCHANGED textVars
    /\ pc = "entry"
    /\ ~args.skip_gen
    /\ \E returncode \in {0, 1}, stdout \in AssistantOutputs :
          IF returncode # 0
          THEN /\ Raise("entry")
               /\ UNCHANGED changelog_entry
          ELSE /\ changelog_entry' = extract_changelog_from_text(strip(stdout))
               /\ steps' = StepDone("entry")
               /\ pc' = "dry_run"
    /\ UNCHANGED <<runs, args, files, local_repo, remote, at_start>>

\* CheckDryRun with the flag ignored
CheckDryRun_ignored ==
    /\ UNCHANGED textVars
    /\ pc = "dry_run"
    /\ pc' = "insert"
    /\ UNCHANGED <<runs, args, changelog_entry, files, local_repo, remote,
                   steps, at_start>>

\* lines 196-200
CheckDryRun ==
    /\ UNCHANGED textVars
    /\ pc = "dry_run"
    /\ pc' = IF args.dry_run THEN "done" ELSE "insert"
    /\ UNCHANGED <<runs, args, changelog_entry, files, local_repo, remote,
                   steps, at_start>>

\* lines 202-204 and 49-70: the entry and a blank line go to the front of
\* the changelog file; insert_at_front_of_file catches what goes wrong
InsertChangelog ==
    /\ UNCHANGED textVars
    /\ pc = "insert"
    /\ IF args.skip_gen
       THEN UNCHANGED <<changelog_file, steps>>
       ELSE IF ~changelog_file.exists
       THEN \* FileNotFoundError, caught at line 67
            /\ steps' = StepFailed("changelog")
            /\ UNCHANGED changelog_file
       ELSE \E io \in {"ok", "error"} :
               IF io = "error"
               THEN \* an error on open or read, caught at line 69
                    /\ steps' = StepFailed("changelog")
                    /\ UNCHANGED changelog_file
               ELSE /\ changelog_file' =
                         [exists |-> TRUE,
                          content |-> insert_at_front(changelog_file.content,
                                          changelog_entry \o NL \o NL)]
                    /\ steps' = StepDone("changelog")
    /\ pc' = "no_tag"
    /\ UNCHANGED <<runs, args, changelog_entry, package_json, local_repo,
                   remote, at_start>>

\* lines 206-208
CheckNoTag ==
    /\ UNCHANGED textVars
    /\ pc = "no_tag"
    /\ pc' = IF args.no_tag THEN "done" ELSE "update_package"
    /\ UNCHANGED <<runs, args, changelog_entry, files, local_repo, remote,
                   steps, at_start>>

\* lines 210-211 and 21-46: the version key of package.json is rewritten;
\* update_package_version re-raises what goes wrong
UpdatePackage ==
    /\ UNCHANGED textVars
    /\ pc = "update_package"
    /\ IF package_json.state # "ok"
       THEN \* json.JSONDecodeError, re-raised at line 43
            /\ Raise("package")
            /\ UNCHANGED package_json
       ELSE \E io \in {"ok", "error"} :
               IF io = "error"
               THEN \* FileNotFoundError or another I/O error, re-raised
                    /\ Raise("package")
                    /\ UNCHANGED package_json
               ELSE /\ package_json' =
                         [package_json EXCEPT !.version = lstrip_v(args.version)]
                    /\ steps' = StepDone("package")
                    /\ pc' = "no_push"
    /\ UNCHANGED <<runs, args, changelog_entry, changelog_file, local_repo,
                   remote, at_start>>

\* CheckNoPush with the flag ignored
CheckNoPush_ignored ==
    /\ UNCHANGED textVars
    /\ pc = "no_push"
    /\ pc' = "commit"
    /\ UNCHANGED <<runs, args, changelog_entry, files, local_repo, remote,
                   steps, at_start>>

\* lines 213-215
CheckNoPush ==
    /\ UNCHANGED textVars
    /\ pc = "no_push"
    /\ pc' = IF args.no_push THEN "done" ELSE "commit"
    /\ UNCHANGED <<runs, args, changelog_entry, files, local_repo, remote,
                   steps, at_start>>

\* lines 217-220: the remote is looked up, the two files are staged and
\* committed
Commit ==
    /\ UNCHANGED textVars
    /\ pc = "commit"
    /\ \E git \in {"ok", "error"} :
          IF git = "error"
          THEN /\ Raise("commit")
               /\ UNCHANGED commits
          ELSE /\ commits' = Append(commits, args.version)
               /\ steps' = StepDone("commit")
               /\ pc' = "push"
    /\ UNCHANGED <<runs, args, changelog_entry, files, tags, remote, at_start>>

\* lines 221-222: the branch is pushed
PushBranch ==
    /\ UNCHANGED textVars
    /\ pc = "push"
    /\ \E git \in {"ok", "error"} :
          IF git = "error"
          THEN /\ Raise("push")
               /\ UNCHANGED remote_commits
          ELSE /\ remote_commits' = commits
               /\ steps' = StepDone("push")
               /\ pc' = "tag"
    /\ UNCHANGED <<runs, args, changelog_entry, files, local_repo,
                   remote_tags, releases, at_start>>

\* lines 224-225: the tag is created, with the entry as its message; git
\* refuses a tag name that exists
CreateTag ==
    /\ UNCHANGED textVars
    /\ pc = "tag"
    /\ \E git \in {"ok", "error"} :
          IF git = "error" \/ \E t \in tags : t.name = args.version
          THEN /\ Raise("tag")
               /\ UNCHANGED tags
          ELSE /\ tags' = tags \cup {[name |-> args.version,
                                      message |-> changelog_entry]}
               /\ steps' = StepDone("tag")
               /\ pc' = "push_tag"
    /\ UNCHANGED <<runs, args, changelog_entry, files, commits, remote,
                   at_start>>

\* lines 226-227: the tag is pushed
PushTag ==
    /\ UNCHANGED textVars
    /\ pc = "push_tag"
    /\ \E git \in {"ok", "error"} :
          IF git = "error"
          THEN /\ Raise("push_tag")
               /\ UNCHANGED remote_tags
          ELSE /\ remote_tags' = remote_tags \cup {args.version}
               /\ steps' = StepDone("push_tag")
               /\ pc' = "no_release"
    /\ UNCHANGED <<runs, args, changelog_entry, files, local_repo,
                   remote_commits, releases, at_start>>

\* lines 229-231
CheckNoRelease ==
    /\ UNCHANGED textVars
    /\ pc = "no_release"
    /\ pc' = IF args.no_release THEN "done" ELSE "release"
    /\ UNCHANGED <<runs, args, changelog_entry, files, local_repo, remote,
                   steps, at_start>>

\* lines 233-247: gh creates the release from the tag; a non-zero exit
\* status is reported and main() returns
CreateRelease ==
    /\ UNCHANGED textVars
    /\ pc = "release"
    /\ \E returncode \in {0, 1} :
          IF returncode # 0
          THEN /\ steps' = StepFailed("release")
               /\ UNCHANGED releases
          ELSE /\ releases' = releases \cup {args.version}
               /\ steps' = StepDone("release")
    /\ pc' = "done"
    /\ UNCHANGED <<runs, args, changelog_entry, files, local_repo,
                   remote_commits, remote_tags, at_start>>

----------------------------------------------------------------------------
(* The specifications *)

InitText ==
    /\ \/ /\ routine = "extract"
          /\ text \in TokenTexts(TextTokens, MaxTextTokens)
          /\ wanted = NoText
       \/ /\ routine = "lookup"
          /\ text \in TokenTexts(DocTokens, MaxDocTokens)
          /\ wanted \in Versions
    /\ calls = 0
    /\ outcome = "pending"
    /\ result = NoText
    /\ previous = NoText
    /\ RunIdle
    /\ changelog_file = [exists |-> FALSE, content |-> <<>>]
    /\ package_json = [state |-> "invalid", version |-> <<>>]
    /\ at_start = Snapshot

\* extract_changelog_from_text(output_text)
Extract ==
    /\ routine = "extract"
    /\ calls = 0
    /\ calls' = 1
    /\ outcome' = "returned"
    /\ result' = extract_changelog_from_text(text)
    /\ UNCHANGED <<routine, text, wanted, previous>>
    /\ UNCHANGED runVars

\* extract_changelog_from_text applied to what it returned
ExtractAgain ==
    /\ routine = "extract"
    /\ calls = 1
    /\ calls' = 2
    /\ previous' = result
    /\ result' = extract_changelog_from_text(result)
    /\ UNCHANGED <<routine, text, wanted, outcome>>
    /\ UNCHANGED runVars

\* get_changelog_entry(version, changelog_path), the file holding text
Lookup ==
    /\ routine = "lookup"
    /\ calls = 0
    /\ calls' = 1
    /\ LET r == get_changelog_entry(wanted, text)
       IN  /\ outcome' = IF r.raised THEN "ValueError" ELSE "returned"
           /\ result' = r.entry
    /\ UNCHANGED <<routine, text, wanted, previous>>
    /\ UNCHANGED runVars

NextText ==
    \/ Extract
    \/ ExtractAgain
    \/ Lookup

SpecText == InitText /\ [][NextText]_vars

\* the release pipeline, run after run, on the files and the repository the
\* runs before left
Init ==
    /\ routine = "main"
    /\ text = NoText
    /\ wanted = NoText
    /\ calls = 0
    /\ outcome = "pending"
    /\ result = NoText
    /\ previous = NoText
    /\ RunIdle
    /\ changelog_file \in InitialChangelogs
    /\ package_json \in InitialPackages
    /\ at_start = Snapshot

Next ==
    \/ Start
    \/ LookupEntry
    \/ GenerateEntry
    \/ CheckDryRun
    \/ InsertChangelog
    \/ CheckNoTag
    \/ UpdatePackage
    \/ CheckNoPush
    \/ Commit
    \/ PushBranch
    \/ CreateTag
    \/ PushTag
    \/ CheckNoRelease
    \/ CreateRelease

Spec == Init /\ [][Next]_vars

----------------------------------------------------------------------------
(* What the claims about the text routines speak of, stated on the text     *)
(* itself and not through the routines.                                     *)

\* the offsets at which an occurrence of ## v<int>.<int>.<int> starts
HeadingOffsets(s) == {i \in 0..(Len(s) - 1) : HeadingAt(s, i) >= 0}

Least(S) == CHOOSE x \in S : \A y \in S : x <= y

\* offset i starts a line
LineStart(s, i) == i = 0 \/ (i > 0 /\ i <= Len(s) /\ s[i] = "\n")

\* a heading line "## <v>" for exactly the label v starts at offset i
SectionHeadingAt(s, i, v) ==
    /\ LineStart(s, i)
    /\ LitAt(s, i, <<"#", "#", " ">> \o v)
    /\ HeadingAt(s, i) = i + 3 + Len(v)

SectionOffsets(s, v) == {i \in 0..(Len(s) - 1) : SectionHeadingAt(s, i, v)}

\* the section of v: from its heading up to the next heading or the end
SectionOf(s, v) ==
    LET i == Least(SectionOffsets(s, v))
        later == {j \in HeadingOffsets(s) : j > i}
        j == IF later = {} THEN Len(s) ELSE Least(later)
    IN  strip(Slice(s, i, j))

\* a line "##", blanks, then a label that is exactly v: the label is the run
\* of non-blank characters that follows
Blank == {" ", "\t"}

LabelledLineAt(s, i, v) ==
    /\ LineStart(s, i)
    /\ LitAt(s, i, <<"#", "#">>)
    /\ LET a == SkipClass(s, i + 2, Blank)
       IN  /\ LitAt(s, a, v)
           /\ (a + Len(v) = Len(s) \/ s[a + Len(v) + 1] \in Whitespace)

HasHeadingLine(s, v) == \E i \in 0..(Len(s) - 1) : LabelledLineAt(s, i, v)

\* s starts with "##", any whitespace, then the label v
StartsWithLabel(s, v) ==
    /\ LitAt(s, 0, <<"#", "#">>)
    /\ \E w \in 2..Len(s) :
          /\ \A k \in 3..w : s[k] \in Whitespace
          /\ LitAt(s, w, v)

\* the text the last application was given
Argument == IF calls = 2 THEN previous ELSE text

\* every "##" of the document starts a heading line "## vX.Y.Z" whose label
\* ends with the line or at a blank
WellFormedDocument(s) ==
    \A i \in 0..(Len(s) - 1) :
        LitAt(s, i, <<"#", "#">>)
            => /\ LineStart(s, i)
               /\ HeadingAt(s, i) >= 0
               /\ (HeadingAt(s, i) = Len(s) \/ s[HeadingAt(s, i) + 1] \in Whitespace)

\* C1: whenever the document has a heading line for the label asked for,
\* lookup returns exactly that section: from the "## v" heading up to, and
\* not including, the next "## vX.Y.Z" heading (or the end), trimmed.
\* Stated for documents made of well-formed heading lines only.
C1_LookupReturnsExactSection ==
    (/\ routine = "lookup" /\ calls = 1
     /\ WellFormedDocument(text)
     /\ SectionOffsets(text, wanted) # {})
        => (outcome = "returned" /\ result = SectionOf(text, wanted))

\* C2: lookup fails with the not-found error whenever no heading line of the
\* document carries exactly the label asked for, and it never returns an
\* empty value.
C2_LookupFailsWithoutExactHeading ==
    (routine = "lookup" /\ calls = 1)
        => /\ ~HasHeadingLine(text, wanted) => outcome = "ValueError"
           /\ outcome = "returned" => result # <<>>

\* C3: extract is idempotent: applied to its own result it returns it
\* unchanged.
C3_ExtractIdempotent ==
    (routine = "extract" /\ calls = 2) => result = previous

\* C4: on a text with two or more occurrences of the heading pattern,
\* extract returns the normalised span from the start of the first
\* occurrence up to the start of the second, and nothing else.
C4_ExtractFirstSpanOnly ==
    (routine = "extract" /\ calls = 1 /\ Cardinality(HeadingOffsets(text)) >= 2)
        => LET first == Least(HeadingOffsets(text))
               second == Least(HeadingOffsets(text) \ {first})
           IN  /\ result = normalize(Slice(text, first, second))
               /\ Len(result) <= second - first

\* a text with preamble, a first section with a body and a second heading
C4_Witness ==
    /\ routine = "extract" /\ calls = 1
    /\ Cardinality(HeadingOffsets(text)) >= 2
    /\ Least(HeadingOffsets(text)) > 0
    /\ Len(result) > Len(Heading123)

\* C5 as stated: every extract result is empty (no heading in the text) or
\* starts with a match of ## v<int>.<int>.<int>, and every lookup result
\* starts with one unless the lookup raised.
C5_ResultStartsWithHeadingPattern ==
    /\ (routine = "extract" /\ calls >= 1)
          => IF HeadingOffsets(Argument) = {} THEN result = <<>>
             ELSE HeadingAt(result, 0) >= 0
    /\ (routine = "lookup" /\ calls = 1)
          => (outcome = "ValueError" \/ HeadingAt(result, 0) >= 0)

\* C5 amended: every extract result is empty (no heading in the text) or
\* starts with a match of ## v<int>.<int>.<int>; every lookup either raises
\* or returns a text that starts with "##", any amount of whitespace
\* (possibly none, possibly a line break), then the label asked for.
C5_ResultStartsWithHeading ==
    /\ (routine = "extract" /\ calls >= 1)
          => IF HeadingOffsets(Argument) = {} THEN result = <<>>
             ELSE HeadingAt(result, 0) >= 0
    /\ (routine = "lookup" /\ calls = 1)
          => (outcome = "ValueError" \/ StartsWithLabel(result, wanted))

\* a lookup that returned an entry whose heading has no blank after "##"
C5_Witness ==
    /\ routine = "lookup" /\ calls = 1 /\ outcome = "returned"
    /\ LitAt(result, 0, <<"#", "#">> \o wanted)

----------------------------------------------------------------------------
(* What the claims about main() speak of *)

Attempted(name) == \E k \in 1..Len(steps) : steps[k].name = name
Succeeded(name) == \E k \in 1..Len(steps) : steps[k].name = name /\ steps[k].ok

IsPrefix(a, b) == Len(a) <= Len(b) /\ SubSeq(b, 1, Len(a)) = a
IsSuffix(a, b) ==
    Len(a) <= Len(b) /\ SubSeq(b, Len(b) - Len(a) + 1, Len(b)) = a

\* the place of each step in the order the claims give
StepRank(name) ==
    CASE name = "entry" -> 1
      [] name = "changelog" -> 2
      [] name = "package" -> 3
      [] name = "commit" -> 4
      [] name = "push" -> 5
      [] name = "tag" -> 6
      [] name = "push_tag" -> 7
      [] name = "release" -> 8

\* C6: each suppression flag keeps the steps it covers from executing:
\* dry-run every write, commit, tag, push and release; no-tag the tag, both
\* pushes and the release; no-push both pushes and the release; no-release
\* the release.
C6_FlagsSuppressSteps ==
    /\ args.dry_run
          => /\ Snapshot = at_start
             /\ \A k \in 1..Len(steps) : steps[k].name = "entry"
    /\ args.no_tag
          => /\ tags = at_start.tags
             /\ remote_commits = at_start.remote_commits
             /\ remote_tags = at_start.remote_tags
             /\ releases = at_start.releases
             /\ ~Attempted("tag") /\ ~Attempted("push")
             /\ ~Attempted("push_tag") /\ ~Attempted("release")
    /\ args.no_push
          => /\ remote_commits = at_start.remote_commits
             /\ remote_tags = at_start.remote_tags
             /\ releases = at_start.releases
             /\ ~Attempted("push") /\ ~Attempted("push_tag")
             /\ ~Attempted("release")
    /\ args.no_release
          => /\ releases = at_start.releases
             /\ ~Attempted("release")

\* a dry run that has computed its entry and returned, on a repository an
\* earlier run has released to
C6_Witness ==
    /\ pc = "done" /\ args.dry_run /\ Succeeded("entry")
    /\ ~args.no_tag /\ ~args.no_push /\ ~args.no_release
    /\ releases # {}

\* C7: the steps run in the fixed order, each only if the step attempted
\* before it succeeded, and a failed step (other than the release creation,
\* which is reported) ends the run with the error.
C7_StepsGatedOnSuccess ==
    /\ \A j, k \in 1..Len(steps) :
          j < k => StepRank(steps[j].name) < StepRank(steps[k].name)
    /\ \A k \in 1..(Len(steps) - 1) : steps[k].ok
    /\ \A k \in 1..Len(steps) :
          (~steps[k].ok /\ steps[k].name # "release") => pc = "raised"

EntryFailed == Len(steps) >= 1 /\ steps[1].name = "entry" /\ ~steps[1].ok

\* C8: when the entry determination fails the run ends with the error and
\* has mutated nothing: files, repository and remote are as the run found
\* them.
C8_EntryFailureMutatesNothing ==
    EntryFailed
        => /\ pc = "raised"
           /\ Len(steps) = 1
           /\ Snapshot = at_start

\* a lookup that found no entry for the version, in a run with no
\* suppression flag, after an earlier run has changed the files
C8_Witness ==
    /\ EntryFailed /\ args.skip_gen /\ changelog_file.exists
    /\ ~args.dry_run /\ ~args.no_tag /\ ~args.no_push /\ ~args.no_release
    /\ runs = 2

\* C9: a run that rewrites the changelog file leaves it equal to the new
\* entry, a blank line, then the previous content unchanged; a lookup run
\* and a dry run leave the file as it was; so the content before a run is
\* always a suffix of the content after it.
C9_ChangelogOnlyGrowsAtFront ==
    /\ Succeeded("changelog")
          => changelog_file.content
                = changelog_entry \o NL \o NL \o at_start.changelog.content
    /\ (args.skip_gen \/ args.dry_run)
          => changelog_file = at_start.changelog
    /\ IsSuffix(at_start.changelog.content, changelog_file.content)

====
